---- MODULE Spec2Model ----
(***************************************************************************)
(* Pinboard Opener (src/src/eventPage.ts): the event page of a browser     *)
(* extension.  It caches the bookmark list of a remote bookmarking service *)
(* in chrome.storage.local, re-checks it on an alarm, and on a click opens *)
(* the first TAB_COUNT unread bookmarks and marks them read.               *)
(*                                                                         *)
(* A workflow is one invocation of handleClick (a click) or of updateData  *)
(* (an alarm).  Every await of the code is a position (pc) of a workflow;  *)
(* the code between two awaits runs as one action, because the event page  *)
(* is single-threaded and promise continuations are microtasks.            *)
(*                                                                         *)
(* chrome.storage.local serves its requests in the order they were issued: *)
(* a set takes effect when it is issued, a get returns the value at the    *)
(* time it was issued, and the callbacks are delivered in that same order  *)
(* (storageQ).  An HTTP request reads or changes the remote service in the *)
(* step that delivers its response.                                        *)
(***************************************************************************)
EXTENDS Integers, Sequences, FiniteSets, TLC

TAB_COUNT == 10

\* Longest bookmark list the remote service holds.
MaxLen == 2

\* Number of changes made to the remote list from outside the extension.
MaxChanges == 1

\* The invocations of handleClick: a click, and a second click that may
\* arrive while the first is still running.
Clicks == {"click1", "click2"}

\* The click of the runs in which only one click arrives.
FirstClick == {"click1"}
Timers == {"alarm1"}
Procs == Clicks \cup Timers

Flags == {"yes", "no"}

\* type Bookmark = { href, description, toread }
Bookmark(h, d, t) == [href |-> h, description |-> d, toread |-> t]

\* A value of chrome.storage.local under one key: undefined until first set.
Undefined(zero) == [def |-> FALSE, val |-> zero]
Defined(v) == [def |-> TRUE, val |-> v]

VARIABLES
  remoteBookmarks,  \* the service's bookmark list (posts/all)
  remoteTime,       \* the service's last-update time (posts/update)
  changes,          \* remote changes made from outside so far
  pinboard,         \* chrome.storage.local key "pinboard"
  pinboardUpdated,  \* chrome.storage.local key "pinboardUpdated"
  badge,            \* text of the browser-action badge
  badgeError,       \* the last updateBadgeCount was rejected by a storage error
  storageQ,         \* storage callbacks not yet delivered, oldest first
  wf                \* per workflow: its position and its local variables

vars == <<remoteBookmarks, remoteTime, changes, pinboard, pinboardUpdated,
          badge, badgeError, storageQ, wf>>

remote == <<remoteBookmarks, remoteTime, changes>>

----------------------------------------------------------------------------
\* Pure functions of the code.

Min(a, b) == IF a < b THEN a ELSE b

\* Variant of filterUnread: the test is inverted.
filterUnreadInverted(bookmarks) == SelectSeq(bookmarks, LAMBDA item : item.toread # "yes")

\* filterUnread: bookmarks.filter(item => item.toread === "yes")
filterUnread(bookmarks) == SelectSeq(bookmarks, LAMBDA item : item.toread = "yes")

\* Variant of truncate: the slice is dropped, every unread bookmark is kept.
truncateNothing(unreadBookmarks) == unreadBookmarks

\* unreadBookmarks.slice(0, TAB_COUNT)
truncate(unreadBookmarks) ==
  SubSeq(unreadBookmarks, 1, Min(Len(unreadBookmarks), TAB_COUNT))

Digit == <<"0", "1", "2", "3", "4", "5", "6", "7", "8", "9">>

\* String(count) for a non-negative integer.
RECURSIVE DecStr(_)
DecStr(n) == IF n < 10 THEN Digit[n + 1]
             ELSE DecStr(n \div 10) \o Digit[(n % 10) + 1]

\* Variant of BadgeText: a count of zero is shown as "0".
BadgeTextZero(count) == DecStr(count)

\* String(count > 0 ? count : "")
BadgeText(count) == IF count > 0 THEN DecStr(count) ELSE ""

\* bookmarksCopy.findIndex(item => item.description === d); 0 stands for -1.
findIndex(bookmarksCopy, d) ==
  IF \E i \in 1..Len(bookmarksCopy) : bookmarksCopy[i].description = d
  THEN CHOOSE i \in 1..Len(bookmarksCopy) :
         /\ bookmarksCopy[i].description = d
         /\ \A j \in 1..(i - 1) : bookmarksCopy[j].description # d
  ELSE 0

\* bookmarksCopy[index].toread = "no"
setRead(bookmarksCopy, index) ==
  [bookmarksCopy EXCEPT ![index] = [@ EXCEPT !.toread = "no"]]

\* readBookmarks.map(bookmark => { ... bookmarksCopy[index].toread = "no" })
RECURSIVE markLocal(_, _)
markLocal(bookmarksCopy, readBookmarks) ==
  IF readBookmarks = <<>> THEN bookmarksCopy
  ELSE markLocal(setRead(bookmarksCopy,
                         findIndex(bookmarksCopy, Head(readBookmarks).description)),
                 Tail(readBookmarks))

\* bookmarksCopy[-1] is undefined: the assignment throws a TypeError.
markLocalThrows(bookmarks, readBookmarks) ==
  \E k \in 1..Len(readBookmarks) :
    findIndex(bookmarks, readBookmarks[k].description) = 0

----------------------------------------------------------------------------
\* The remote service.

\* posts/add?url=..&description=..&toread=no answered "done": the bookmark
\* with that url is replaced, and the service's update time advances.
remoteAdd(list, bookmark) ==
  [i \in 1..Len(list) |->
     IF list[i].href = bookmark.href
     THEN Bookmark(bookmark.href, bookmark.description, "no")
     ELSE list[i]]

\* Lists of n bookmarks with distinct hrefs; descriptions distinct or all equal.
ListsOfLen(n) ==
  { [i \in 1..n |-> Bookmark(i, IF dup THEN 1 ELSE i, t[i])] :
      dup \in BOOLEAN, t \in [1..n -> Flags] }

RemoteLists == UNION { ListsOfLen(n) : n \in 0..MaxLen }

\* A bookmark is added on the service from elsewhere (newest first).
RemoteChange ==
  /\ changes < MaxChanges
  /\ Len(remoteBookmarks) < MaxLen
  /\ \E d \in {1, Len(remoteBookmarks) + 1}, t \in Flags :
       remoteBookmarks' =
         <<Bookmark(Len(remoteBookmarks) + 1, d, t)>> \o remoteBookmarks
  /\ remoteTime' = remoteTime + 1
  /\ changes' = changes + 1
  /\ UNCHANGED <<pinboard, pinboardUpdated, badge, badgeError, storageQ, wf>>

----------------------------------------------------------------------------
\* Workflows.

\* The local variables of a workflow.  timeSets and listSets count the
\* chrome.storage.local.set calls it has made for each key; failedAt names
\* the call whose rejection ended it.
Idle == [pc |-> "idle", oldUpdated |-> Undefined(0), newUpdated |-> Undefined(0),
         data |-> <<>>, bookmarks |-> <<>>, readBookmarks |-> <<>>,
         responses |-> <<>>, tabs |-> <<>>, notifications |-> <<>>,
         timeSets |-> 0, listSets |-> 0, failedAt |-> ""]

\* A storage callback waiting for delivery: the call it belongs to, the
\* workflow that made the call, and what the storage hands to it.
Callback(op, p, v) ==
  [op |-> op, proc |-> p, val |-> v, time |-> Undefined(0)]

TimeCallback(op, p, t) ==
  [op |-> op, proc |-> p, val |-> Undefined(<<>>), time |-> t]

HeadIs(op, p) ==
  /\ storageQ # <<>>
  /\ Head(storageQ).op = op
  /\ Head(storageQ).proc = p

\* The awaited promise rejects: the async function p runs rejects with it.
rejected(p, at) == [wf EXCEPT ![p].pc = "rejected", ![p].failedAt = at]

\* init(): updateBadgeCount() reads the stored list; the listeners are set.
\* Storage is empty after installation, and holds what an earlier run of
\* the event page left when the page is loaded again.
Init ==
  /\ remoteBookmarks \in RemoteLists
  /\ remoteTime = 1
  /\ changes = 0
  /\ \/ /\ pinboard = Undefined(<<>>)
        /\ pinboardUpdated = Undefined(0)
     \/ /\ pinboard = Defined(remoteBookmarks)
        /\ pinboardUpdated = Defined(remoteTime)
  /\ badge = ""
  /\ badgeError = FALSE
  /\ storageQ = <<Callback("updateBadgeCount", "init", pinboard)>>
  /\ wf = [p \in Procs |-> Idle]

\* updateData -> shouldFetchNew -> getOldUpdatedTime: the storage get is issued.
updateData(p) ==
  /\ wf[p].pc = "idle"
  /\ wf' = [wf EXCEPT ![p].pc = "getOldUpdatedTime"]
  /\ storageQ' = Append(storageQ,
                        TimeCallback("getOldUpdatedTime", p, pinboardUpdated))
  /\ UNCHANGED <<remote, pinboard, pinboardUpdated, badge, badgeError>>

\* chrome.browserAction.onClicked: handleClick starts with await updateData().
handleClick(p) == p \in Clicks /\ updateData(p)

\* chrome.alarms.onAlarm with alarm.name === "pinboard-opener".
onAlarm(p) == p \in Timers /\ updateData(p)

\* Callback of getOldUpdatedTime; then getNewUpdatedTime issues its fetch.
getOldUpdatedTime(p) ==
  /\ HeadIs("getOldUpdatedTime", p)
  /\ storageQ' = Tail(storageQ)
  /\ \E lastError \in BOOLEAN :
       wf' = IF lastError
             THEN rejected(p, "getOldUpdatedTime")
             ELSE [wf EXCEPT ![p].pc = "getNewUpdatedTime",
                             ![p].oldUpdated = Head(storageQ).time]
  /\ UNCHANGED <<remote, pinboard, pinboardUpdated, badge, badgeError>>

\* Variants of differs: the comparison inverted; the comparison dropped.
differsInverted(oldUpdated, newUpdated) == oldUpdated = newUpdated

differsAlways(oldUpdated, newUpdated) == TRUE

\* if (oldUpdated !== newUpdated)
differs(oldUpdated, newUpdated) == oldUpdated # newUpdated

\* Variant of setOldUpdatedTime: the new time is not stored.
setOldUpdatedTimeSkipped(time) == UNCHANGED pinboardUpdated

\* setOldUpdatedTime(time): chrome.storage.local.set({ pinboardUpdated: time })
setOldUpdatedTime(time) == pinboardUpdated' = time

\* Variant of calledByAlarm: what follows updateData in handleClick follows it
\* in the alarm listener as well.
calledByAlarmNever(p) == FALSE

\* The alarm listener calls updateData() and nothing after it; handleClick
\* awaits updateData() and goes on.
calledByAlarm(p) == p \in Timers

\* Response of the posts/update fetch; the rest of shouldFetchNew and the
\* part of updateData / handleClick that runs until the next await.
getNewUpdatedTime(p) ==
  /\ wf[p].pc = "getNewUpdatedTime"
  /\ \E ok \in BOOLEAN :
       LET newUpdated == Defined(remoteTime) IN
       IF ~ok
       THEN \* fetch or res.json() rejects
            /\ wf' = rejected(p, "getNewUpdatedTime")
            /\ UNCHANGED <<pinboardUpdated, storageQ>>
       ELSE IF differs(wf[p].oldUpdated, newUpdated)
       THEN \* setOldUpdatedTime(newUpdated); return true; await fetchNew()
            /\ setOldUpdatedTime(newUpdated)
            /\ wf' = [wf EXCEPT ![p].pc = "fetchNew",
                                ![p].newUpdated = newUpdated,
                                ![p].timeSets = @ + 1]
            /\ UNCHANGED storageQ
       ELSE IF calledByAlarm(p)
       THEN \* return false: updateData resolves
            /\ wf' = [wf EXCEPT ![p].pc = "resolved",
                                ![p].newUpdated = newUpdated]
            /\ UNCHANGED <<pinboardUpdated, storageQ>>
       ELSE \* return false: handleClick goes on to await getLocalBookmarks()
            /\ wf' = [wf EXCEPT ![p].pc = "getLocalBookmarks",
                                ![p].newUpdated = newUpdated]
            /\ storageQ' = Append(storageQ, Callback("getLocalBookmarks", p, pinboard))
            /\ UNCHANGED pinboardUpdated
  /\ UNCHANGED <<remote, pinboard, badge, badgeError>>

\* setLocalBookmarks(bookmarks): the set is issued, its callback is pending.
setLocalBookmarks(p, bookmarks) ==
  /\ pinboard' = Defined(bookmarks)
  /\ storageQ' = Append(storageQ, Callback("setLocalBookmarks", p, Defined(bookmarks)))

\* Variant of fetchNewRejects: the failure is not passed on to reject, and
\* the promise stays pending.
fetchNewSwallows(p) == [wf EXCEPT ![p].pc = "fetchNewPending", ![p].failedAt = "fetchNew"]

\* fetchNew's .catch(error => reject(error)): updateData rejects with it,
\* and so does the handleClick awaiting it.
fetchNewRejects(p) == rejected(p, "fetchNew")

\* Response of the posts/all fetch.  On success the data is stored, and the
\* promise fetchNew returned is left pending: its executor calls reject on
\* failure and never calls resolve.
fetchNew(p) ==
  /\ wf[p].pc = "fetchNew"
  /\ \E ok \in BOOLEAN :
       IF ok
       THEN /\ setLocalBookmarks(p, remoteBookmarks)
            /\ wf' = [wf EXCEPT ![p].pc = "fetchNewPending",
                                ![p].data = remoteBookmarks,
                                ![p].listSets = @ + 1]
       ELSE /\ wf' = fetchNewRejects(p)
            /\ UNCHANGED <<pinboard, storageQ>>
  /\ UNCHANGED <<remote, pinboardUpdated, badge, badgeError>>

\* Callback of chrome.storage.local.set in setLocalBookmarks:
\* updateBadgeCount() issues its storage get; resolve().
setLocalBookmarksDone ==
  /\ storageQ # <<>>
  /\ Head(storageQ).op = "setLocalBookmarks"
  /\ storageQ' = Append(Tail(storageQ),
                        Callback("updateBadgeCount", Head(storageQ).proc, pinboard))
  /\ UNCHANGED <<remote, pinboard, pinboardUpdated, badge, badgeError, wf>>

\* Callback of the storage get of updateBadgeCount, and the rest of it.
updateBadgeCount ==
  /\ storageQ # <<>>
  /\ Head(storageQ).op = "updateBadgeCount"
  /\ storageQ' = Tail(storageQ)
  /\ \E lastError \in BOOLEAN :
       LET bookmarks == Head(storageQ).val IN
       IF lastError \/ ~bookmarks.def
       THEN \* rejected, or filterUnread(undefined) throws: the badge stays
            /\ UNCHANGED badge
            /\ badgeError' = lastError
       ELSE /\ badge' = BadgeText(Len(filterUnread(bookmarks.val)))
            /\ badgeError' = FALSE
  /\ UNCHANGED <<remote, pinboard, pinboardUpdated, wf>>

\* Variant of openTabs: no tab is created before markBookmarksRead is called.
openTabsSkipped(truncatedUnreadBookmarks) == <<>>

\* chrome.tabs.create({ url: bookmark.href, active: false }) for each.
openTabs(truncatedUnreadBookmarks) ==
  [i \in 1..Len(truncatedUnreadBookmarks) |-> truncatedUnreadBookmarks[i].href]

\* markBookmarksRead issues one posts/add fetch per bookmark of readBookmarks.
markReadPromises(readBookmarks) ==
  [i \in 1..Len(readBookmarks) |-> "pending"]

\* Variant of noneUnread: the test is dropped, the click always goes on.
noneUnreadNever(unreadBookmarks) == FALSE

\* if (!unreadBookmarks.length)
noneUnread(unreadBookmarks) == Len(unreadBookmarks) = 0

\* Callback of getLocalBookmarks in handleClick, up to await markBookmarksRead.
getLocalBookmarks(p) ==
  /\ HeadIs("getLocalBookmarks", p)
  /\ storageQ' = Tail(storageQ)
  /\ \E lastError \in BOOLEAN :
       LET stored == Head(storageQ).val
           bookmarks == stored.val
           unreadBookmarks == filterUnread(bookmarks)
           truncatedUnreadBookmarks == truncate(unreadBookmarks)
       IN
       IF lastError \/ ~stored.def
       THEN \* rejected, or filterUnread(undefined) throws
            wf' = rejected(p, "getLocalBookmarks")
       ELSE IF noneUnread(unreadBookmarks)
       THEN wf' = [wf EXCEPT
              ![p].pc = "resolved",
              ![p].bookmarks = bookmarks,
              ![p].notifications =
                 Append(@, "There aren't any unread bookmarks to open!")]
       ELSE wf' = [wf EXCEPT
              ![p].pc = "markBookmarksRead",
              ![p].bookmarks = bookmarks,
              ![p].readBookmarks = truncatedUnreadBookmarks,
              ![p].notifications =
                 Append(@, "Opening " \o DecStr(Len(truncatedUnreadBookmarks))
                           \o " tabs from pinboard."),
              ![p].tabs = openTabs(truncatedUnreadBookmarks),
              ![p].responses = markReadPromises(truncatedUnreadBookmarks)]
  /\ UNCHANGED <<remote, pinboard, pinboardUpdated, badge, badgeError>>

\* What one posts/add fetch can come to: result_code "done", another
\* result_code, a rejected fetch, a body response.json() cannot parse.
Outcomes == {"done", "failed", "neterr", "badjson"}

\* responses.filter(res => res.result_code !== "done").length
anyFailed(responses) ==
  \E k \in 1..Len(responses) : responses[k] # "done"

\* Variant of bookmarksCopy: the copy is taken of the list stored now, not
\* of the list handleClick read.
bookmarksCopyOfStored(p) == pinboard.val

\* const bookmarksCopy = JSON.parse(JSON.stringify(bookmarks))
bookmarksCopy(p) == wf[p].bookmarks

\* Variant of markReadSettles: resolve() is reached before the result codes
\* are inspected, so a failing result_code no longer rejects.
markReadSettlesResolveFirst(p, responses) ==
  IF \E k \in 1..Len(responses) : responses[k] = "badjson"
  THEN "rejected"
  ELSE IF markLocalThrows(wf[p].bookmarks, wf[p].readBookmarks)
  THEN "rejected"
  ELSE "resolved"

\* The .then callback of markBookmarksRead, run once every fetch has resolved:
\* how the promise settles.
markReadSettles(p, responses) ==
  IF \E k \in 1..Len(responses) : responses[k] = "badjson"
  THEN "rejected"   \* the inner Promise.all rejects: .catch(reject)
  ELSE IF markLocalThrows(bookmarksCopy(p), wf[p].readBookmarks)
  THEN "rejected"   \* thrown inside the callback: .catch(reject)
  ELSE IF anyFailed(responses)
  THEN "rejected"   \* reject(new Error(..)); the later resolve() is void
  ELSE "resolved"

\* Whether that callback reaches setLocalBookmarks(bookmarksCopy): reject()
\* does not leave the callback, so a failing result_code does not stop it.
markReadWrites(p, responses) ==
  /\ \A k \in 1..Len(responses) : responses[k] # "badjson"
  /\ ~markLocalThrows(bookmarksCopy(p), wf[p].readBookmarks)

\* Variant of allResolved: the callback runs as soon as one fetch has come back.
someResolved(responses) == \E k \in 1..Len(responses) : responses[k] # "pending"

\* Promise.all(markReadPromises).then(...): every fetch has resolved.
allResolved(responses) == \A k \in 1..Len(responses) : responses[k] # "pending"

\* One posts/add fetch of workflow p's batch comes back.
markBookmarksRead(p, i) ==
  /\ i \in 1..Len(wf[p].responses)
  /\ wf[p].responses[i] = "pending"
  /\ \E o \in Outcomes :
       LET responses == [wf[p].responses EXCEPT ![i] = o]
           joined == allResolved(responses)
           settles == markReadSettles(p, responses)
       IN
       /\ IF o = "done"
          THEN /\ remoteBookmarks' = remoteAdd(remoteBookmarks, wf[p].readBookmarks[i])
               /\ remoteTime' = remoteTime + 1
          ELSE UNCHANGED <<remoteBookmarks, remoteTime>>
       /\ IF wf[p].pc # "markBookmarksRead"
          THEN \* the promise was rejected by an earlier fetch
               /\ wf' = [wf EXCEPT ![p].responses = responses]
               /\ UNCHANGED <<pinboard, storageQ>>
          ELSE IF o = "neterr"
          THEN \* Promise.all(markReadPromises) rejects at once
               /\ wf' = [rejected(p, "markBookmarksRead") EXCEPT
                           ![p].responses = responses]
               /\ UNCHANGED <<pinboard, storageQ>>
          ELSE IF ~joined
          THEN /\ wf' = [wf EXCEPT ![p].responses = responses]
               /\ UNCHANGED <<pinboard, storageQ>>
          ELSE /\ wf' = [wf EXCEPT
                    ![p].responses = responses,
                    ![p].pc = settles,
                    ![p].failedAt =
                       IF settles = "rejected" THEN "markBookmarksRead" ELSE @,
                    ![p].listSets =
                       IF markReadWrites(p, responses) THEN @ + 1 ELSE @]
               /\ IF markReadWrites(p, responses)
                  THEN setLocalBookmarks(p, markLocal(bookmarksCopy(p), wf[p].readBookmarks))
                  ELSE UNCHANGED <<pinboard, storageQ>>
  /\ UNCHANGED <<changes, pinboardUpdated, badge, badgeError>>

\* One click and one alarm, overlapping in every possible way.
Next ==
  \/ \E p \in FirstClick : handleClick(p)
  \/ \E p \in Timers : onAlarm(p)
  \/ \E p \in Procs : getOldUpdatedTime(p)
  \/ \E p \in Procs : getNewUpdatedTime(p)
  \/ \E p \in Procs : fetchNew(p)
  \/ \E p \in Procs : getLocalBookmarks(p)
  \/ \E p \in Procs : \E i \in 1..TAB_COUNT : markBookmarksRead(p, i)
  \/ setLocalBookmarksDone
  \/ updateBadgeCount
  \/ RemoteChange

Spec == Init /\ [][Next]_vars

\* Every HTTP request is answered and every storage callback is delivered;
\* clicks, alarms and remote changes may or may not happen.
FairSpec ==
  /\ Spec
  /\ \A p \in Procs :
       /\ WF_vars(getOldUpdatedTime(p))
       /\ WF_vars(getNewUpdatedTime(p))
       /\ WF_vars(fetchNew(p))
       /\ WF_vars(getLocalBookmarks(p))
       /\ WF_vars(\E i \in 1..TAB_COUNT : markBookmarksRead(p, i))
  /\ WF_vars(setLocalBookmarksDone)
  /\ WF_vars(updateBadgeCount)

\* Length of the cached list in the runs of one click over a long list.
BigLen == 12

\* Lists of BigLen bookmarks with distinct hrefs and descriptions.
BigLists ==
  { [i \in 1..BigLen |-> Bookmark(i, i, t[i])] : t \in [1..BigLen -> Flags] }

\* The event page is loaded with a cached list of BigLen bookmarks that is
\* in step with the service.
InitBig ==
  /\ remoteBookmarks \in BigLists
  /\ remoteTime = 1
  /\ changes = 0
  /\ pinboard = Defined(remoteBookmarks)
  /\ pinboardUpdated = Defined(remoteTime)
  /\ badge = ""
  /\ badgeError = FALSE
  /\ storageQ = <<Callback("updateBadgeCount", "init", pinboard)>>
  /\ wf = [p \in Procs |-> Idle]

\* markBookmarksRead(p, i) when the service answers the calls of a batch in
\* the order they were issued, each with "done".
markBookmarksReadInOrder(p, i) ==
  /\ markBookmarksRead(p, i)
  /\ \A k \in 1..(i - 1) : wf[p].responses[k] # "pending"
  /\ wf'[p].responses[i] = "done"

\* One click on a long cached list, no alarm and no failing posts/add call.
NextBig ==
  \/ \E p \in FirstClick : handleClick(p)
  \/ \E p \in Clicks : getOldUpdatedTime(p)
  \/ \E p \in Clicks : getNewUpdatedTime(p)
  \/ \E p \in Clicks : getLocalBookmarks(p)
  \/ \E p \in Clicks : \E i \in 1..TAB_COUNT : markBookmarksReadInOrder(p, i)
  \/ setLocalBookmarksDone
  \/ updateBadgeCount

SpecBig == InitBig /\ [][NextBig]_vars

\* Two clicks, overlapping in every possible way; no alarm and no change of
\* the service from outside.
NextClicks ==
  \/ \E p \in Clicks : handleClick(p)
  \/ \E p \in Clicks : getOldUpdatedTime(p)
  \/ \E p \in Clicks : getNewUpdatedTime(p)
  \/ \E p \in Clicks : fetchNew(p)
  \/ \E p \in Clicks : getLocalBookmarks(p)
  \/ \E p \in Clicks : \E i \in 1..TAB_COUNT : markBookmarksRead(p, i)
  \/ setLocalBookmarksDone
  \/ updateBadgeCount

SpecClicks == Init /\ [][NextClicks]_vars

----------------------------------------------------------------------------
\* Properties.

Ended(p) == wf[p].pc \in {"resolved", "rejected"}

\* Every fetch of p's batch has come back.
AllResponded(p) ==
  /\ wf[p].responses # <<>>
  /\ \A k \in 1..Len(wf[p].responses) : wf[p].responses[k] # "pending"

SomeResponse(p, outcomes) ==
  \E k \in 1..Len(wf[p].responses) : wf[p].responses[k] \in outcomes

OnlyResponses(p, outcomes) ==
  \A k \in 1..Len(wf[p].responses) : wf[p].responses[k] \in outcomes

\* C1: a batch in which every call responded and at least one result_code is
\* not "done" makes no write to the stored bookmark list.
C1_NoWriteOnFailedCode ==
  \A p \in Clicks :
    (AllResponded(p) /\ OnlyResponses(p, {"done", "failed"})
       /\ SomeResponse(p, {"failed"}))
    => wf[p].listSets = 0

\* The positions of list L held by the first n unread entries of L.
SelectedPositions(L, n) ==
  { i \in 1..Len(L) :
      /\ L[i].toread = "yes"
      /\ Cardinality({ j \in 1..i : L[j].toread = "yes" }) <= n }

\* L with toread = "no" at the given positions, and L everywhere else.
ReadAt(L, positions) ==
  [i \in 1..Len(L) |->
     IF i \in positions THEN Bookmark(L[i].href, L[i].description, "no") ELSE L[i]]

\* C4: a batch over the selected subset S of list L with every response
\* "done" persists L with toread = "no" at the positions of S, and L unchanged
\* at every other position.
C4_PersistsSelectedAsRead ==
  [][\A p \in Clicks :
       (wf[p].pc = "markBookmarksRead" /\ wf'[p].pc = "resolved")
       => pinboard' = Defined(ReadAt(wf[p].bookmarks,
                                     SelectedPositions(wf[p].bookmarks,
                                                       Len(wf[p].readBookmarks))))]_vars

\* C5: when a call of the batch fails (rejected fetch, unparsable body, or a
\* result_code other than "done"), the promise of markBookmarksRead is never
\* resolved, and it is rejected as soon as the failure is seen: at once for a
\* rejected fetch, at the join for the others.
C5_FailedCallRejects ==
  \A p \in Clicks :
    SomeResponse(p, {"failed", "neterr", "badjson"})
    => /\ wf[p].pc # "resolved"
       /\ (SomeResponse(p, {"neterr"}) \/ AllResponded(p))
          => (wf[p].pc = "rejected" /\ wf[p].failedAt = "markBookmarksRead")

\* C5 witness: a batch of two calls, one "done" and one with another code,
\* has been joined and rejected.
C5_Witness ==
  \E p \in Clicks :
    /\ AllResponded(p)
    /\ SomeResponse(p, {"failed"})
    /\ SomeResponse(p, {"done"})
    /\ wf[p].pc = "rejected"

\* C2: with every request answered and every callback delivered, a started
\* handleClick invocation eventually ends (resolved or rejected).
C2_ClickEnds ==
  \A p \in Clicks : (wf[p].pc # "idle") ~> Ended(p)

\* The position in L of its j-th unread bookmark.
NthUnread(L, j) ==
  CHOOSE i \in 1..Len(L) :
    /\ L[i].toread = "yes"
    /\ Cardinality({ m \in 1..i : L[m].toread = "yes" }) = j

\* C3: a handleClick invocation that read a list L with k >= 1 unread
\* bookmarks has opened min(10, k) tabs, the j-th on the href of the j-th
\* unread bookmark of L, and has issued one mark-read call per opened
\* bookmark, the j-th for the j-th unread bookmark of L.
C3_OpensFirstTenUnread ==
  \A p \in Clicks :
    LET L == wf[p].bookmarks
        k == Cardinality({ i \in 1..Len(L) : L[i].toread = "yes" })
        n == IF k < 10 THEN k ELSE 10
    IN k >= 1 =>
         /\ Len(wf[p].tabs) = n
         /\ Len(wf[p].responses) = n
         /\ Len(wf[p].readBookmarks) = n
         /\ \A j \in 1..n :
              /\ wf[p].tabs[j] = L[NthUnread(L, j)].href
              /\ wf[p].readBookmarks[j] = L[NthUnread(L, j)]

\* C3 witness: the list read has more than 10 unread bookmarks, the first of
\* its bookmarks is read already, and 10 tabs are open.
C3_Witness ==
  \E p \in Clicks :
    /\ Len(wf[p].bookmarks) > 10
    /\ Len(filterUnread(wf[p].bookmarks)) > 10
    /\ wf[p].bookmarks[1].toread = "no"
    /\ Len(wf[p].tabs) = 10
    /\ AllResponded(p)

\* The step in which p's sync-check (shouldFetchNew) gets the remote time.
SyncCheckStep(p) ==
  /\ wf[p].pc = "getNewUpdatedTime"
  /\ wf'[p].pc \notin {"getNewUpdatedTime", "rejected"}

\* C6: a sync-check that read a stored time different from the remote time
\* (or read none) reports "refresh needed" and writes the stored time once,
\* with the remote time it fetched.
C6_DifferenceStoresRemoteTime ==
  [][\A p \in Procs :
       /\ wf'[p].timeSets <= 1
       /\ (SyncCheckStep(p) /\ wf[p].oldUpdated # Defined(remoteTime))
          => /\ wf'[p].pc = "fetchNew"
             /\ wf'[p].timeSets = 1
             /\ pinboardUpdated' = Defined(remoteTime)
             /\ wf'[p].newUpdated = Defined(remoteTime)]_vars

\* C6 witness: one sync-check found no stored time, another found a stored
\* time older than the remote one; each wrote once, and the store holds the
\* time the second fetched.
C6_Witness ==
  \E p, q \in Procs :
    /\ ~wf[p].oldUpdated.def
    /\ wf[p].timeSets = 1
    /\ wf[q].oldUpdated.def
    /\ wf[q].newUpdated.def
    /\ wf[q].oldUpdated # wf[q].newUpdated
    /\ wf[q].timeSets = 1
    /\ wf[q].pc = "fetchNew"
    /\ pinboardUpdated = wf[q].newUpdated

\* p's sync-check has found the stored time equal to the remote time.
FoundEqual(p) ==
  /\ wf[p].newUpdated.def
  /\ wf[p].oldUpdated = wf[p].newUpdated

\* C7: a sync-check that read a stored time equal to the remote time reports
\* "no refresh needed"; neither of its steps changes the stored time, the
\* stored list or the badge, and its updateData never requests the full list.
C7_EqualChangesNothing ==
  [][\A p \in Procs :
       /\ (SyncCheckStep(p) /\ wf[p].oldUpdated = Defined(remoteTime))
          => /\ wf'[p].pc \in {"resolved", "getLocalBookmarks"}
             /\ FoundEqual(p)'
             /\ UNCHANGED <<pinboardUpdated, pinboard, badge>>
       /\ (wf[p].pc = "getOldUpdatedTime" /\ wf'[p].pc # "getOldUpdatedTime")
          => UNCHANGED <<pinboardUpdated, pinboard, badge>>
       /\ FoundEqual(p)'
          => /\ wf'[p].pc \notin {"fetchNew", "fetchNewPending"}
             /\ wf'[p].failedAt # "fetchNew"
             /\ wf'[p].timeSets = 0
             /\ wf'[p].data = <<>>]_vars

\* C7 witness: an alarm's updateData has resolved, and a click has gone on
\* to read the cache, each after a sync-check that found the times equal.
C7_Witness ==
  \E p \in Timers, q \in Clicks :
    /\ FoundEqual(p) /\ wf[p].pc = "resolved"
    /\ FoundEqual(q) /\ wf[q].pc = "getLocalBookmarks"

\* C8: after a sync-check of p found a difference and p's refetch failed, p
\* has written the stored time and not the stored list; the stored time is
\* the remote time p fetched (or the one a later sync-check wrote over it);
\* and a sync-check that reads that stored time and fetches the same remote
\* time reports "no refresh needed" and requests no list.
C8_FailedRefetchLeavesTimeAdvanced ==
  \A p \in Procs :
    wf[p].failedAt = "fetchNew"
    => /\ wf[p].timeSets = 1
       /\ wf[p].listSets = 0
       /\ \/ pinboardUpdated = wf[p].newUpdated
          \/ \E q \in Procs \ {p} :
               wf[q].timeSets = 1 /\ pinboardUpdated = wf[q].newUpdated
       /\ \A q \in Procs \ {p} :
            (wf[q].oldUpdated = wf[p].newUpdated
               /\ wf[q].newUpdated = wf[p].newUpdated)
            => /\ wf[q].pc \notin {"fetchNew", "fetchNewPending"}
               /\ wf[q].failedAt # "fetchNew"
               /\ wf[q].timeSets = 0

\* C8 witness: p's refetch failed, the next sync-check found the times equal
\* with no remote change since, nothing has written the stored list, and
\* the stored list is not the remote list.
C8_Witness ==
  \E p, q \in Procs :
    /\ p # q
    /\ wf[p].failedAt = "fetchNew"
    /\ FoundEqual(q)
    /\ wf[q].oldUpdated = wf[p].newUpdated
    /\ pinboardUpdated = Defined(remoteTime)
    /\ wf[p].listSets = 0 /\ wf[q].listSets = 0
    /\ pinboard.def
    /\ pinboard.val # remoteBookmarks

\* C9: a workflow whose full-list request failed is rejected, has made no
\* write to the stored list, and has read no cache, opened no tab, posted no
\* notification and issued no mark-read call.
C9_FailedRefetchPropagates ==
  \A p \in Procs :
    wf[p].failedAt = "fetchNew"
    => /\ wf[p].pc = "rejected"
       /\ wf[p].listSets = 0
       /\ wf[p].bookmarks = <<>>
       /\ wf[p].tabs = <<>>
       /\ wf[p].notifications = <<>>
       /\ wf[p].responses = <<>>

\* C9 witness: a handleClick invocation has been rejected by its refetch
\* while the stored list is one that has unread bookmarks to open.
C9_Witness ==
  \E p \in Clicks :
    /\ wf[p].failedAt = "fetchNew"
    /\ pinboard.def
    /\ filterUnread(pinboard.val) # <<>>

Hrefs(list) == { list[i].href : i \in 1..Len(list) }

\* list is what a mark-read batch makes of L: the same bookmarks in the same
\* order, each with the toread of L or with "no".
CloneOf(list, L) ==
  /\ Len(list) = Len(L)
  /\ \A i \in 1..Len(L) :
       /\ list[i].href = L[i].href
       /\ list[i].description = L[i].description
       /\ list[i].toread \in {L[i].toread, "no"}

\* C10: once a click's batch and an alarm's refetch have both written the
\* stored list, the stored list is the refetched list or the click's clone
\* of the list the click had read, whichever was written last: the write of
\* the batch takes nothing from what the refetch stored.
C10_LastWriteWins ==
  \A c \in Clicks, t \in Timers :
    (wf[c].listSets = 1 /\ wf[t].listSets = 1 /\ wf[c].responses # <<>>)
    => /\ pinboard.def
       /\ \/ pinboard.val = wf[t].data
          \/ CloneOf(pinboard.val, wf[c].bookmarks)

\* C10 witness: the alarm's refetch stored a list with a bookmark the click
\* had not read, the click's batch has persisted since, and the stored list
\* lacks that bookmark.
C10_Witness ==
  \E c \in Clicks, t \in Timers :
    /\ wf[c].listSets = 1
    /\ wf[c].pc = "resolved"
    /\ wf[t].pc = "fetchNewPending"
    /\ \E h \in Hrefs(wf[t].data) :
         /\ h \notin Hrefs(wf[c].bookmarks)
         /\ h \notin Hrefs(pinboard.val)

\* No write of the stored list is unacknowledged and no badge recompute is
\* under way.
BadgeSettled ==
  \A k \in 1..Len(storageQ) :
    storageQ[k].op \notin {"setLocalBookmarks", "updateBadgeCount"}

\* The badge shows the unread count of the stored list.
BadgeShowsStored ==
  LET count == Cardinality({ i \in 1..Len(pinboard.val) :
                               pinboard.val[i].toread = "yes" })
  IN badge = IF count = 0 THEN ""
             ELSE IF count < 10 THEN Digit[count + 1]
             ELSE Digit[(count \div 10) + 1] \o Digit[(count % 10) + 1]

\* Every setLocalBookmarks leaves its callback in the queue, and the
\* delivery of that callback starts a badge recompute.
WriteStartsRecompute ==
  /\ pinboard' # pinboard
     => /\ Len(storageQ') = Len(storageQ) + 1
        /\ storageQ'[Len(storageQ')].op = "setLocalBookmarks"
  /\ (\E p \in Procs : wf'[p].listSets > wf[p].listSets)
     => storageQ'[Len(storageQ')].op = "setLocalBookmarks"
  /\ (storageQ # <<>> /\ Head(storageQ).op = "setLocalBookmarks"
        /\ storageQ' # storageQ /\ Len(storageQ') <= Len(storageQ))
     => storageQ'[Len(storageQ')].op = "updateBadgeCount"

NoUnreadMessage == "There aren't any unread bookmarks to open!"

AllRead(list) == \A i \in 1..Len(list) : list[i].toread # "yes"

\* The step in which click p's read of the stored list is delivered and
\* hands over a list.
CacheReadStep(p) ==
  /\ HeadIs("getLocalBookmarks", p)
  /\ wf[p].pc = "getLocalBookmarks"
  /\ wf'[p].pc \notin {"getLocalBookmarks", "rejected"}

NoUnreadStops(p) ==
  /\ wf[p].pc = "resolved"
  /\ wf[p].notifications = <<NoUnreadMessage>>
  /\ wf[p].tabs = <<>>
  /\ wf[p].readBookmarks = <<>>
  /\ wf[p].responses = <<>>
  /\ wf[p].listSets = 0

\* C12: a click whose read of the stored list shows no bookmark with
\* toread = "yes" posts the 'no unread bookmarks' notification and ends there:
\* it opens no tab, issues no mark-read call and writes no list, in that step
\* and ever after.
C12_NoUnreadNotifiesAndStops ==
  /\ [][\A p \in Clicks :
         (CacheReadStep(p) /\ AllRead(Head(storageQ).val.val))
         => /\ NoUnreadStops(p)'
            /\ wf'[p].bookmarks = Head(storageQ).val.val
            /\ UNCHANGED <<pinboard, remote>>]_vars
  /\ [](\A p \in Clicks :
         (wf[p].notifications # <<>> /\ AllRead(wf[p].bookmarks))
         => NoUnreadStops(p))

C12_Witness ==
  \E p \in Clicks :
    /\ NoUnreadStops(p)
    /\ wf[p].bookmarks # <<>>
    /\ AllRead(wf[p].bookmarks)
    /\ \E i \in 1..Len(remoteBookmarks) : remoteBookmarks[i].toread = "yes"

\* Click p's read of the stored list is issued in this step.
CacheReadIssuedStep(p) ==
  /\ wf[p].pc # "getLocalBookmarks"
  /\ wf'[p].pc = "getLocalBookmarks"

\* Click p's sync-check has resolved, and the refetch it called for, if any,
\* has stored the list it fetched.
SyncedBeforeRead(p) ==
  /\ wf[p].newUpdated.def
  /\ wf[p].oldUpdated # wf[p].newUpdated
     => /\ wf[p].listSets >= 1
        /\ \E k \in 1..Len(storageQ) :
             /\ storageQ[k].op = "setLocalBookmarks"
             /\ storageQ[k].proc = p
             /\ storageQ[k].val = Defined(wf[p].data)

\* Click p has been handed the stored list.
CacheReadDone(p) == wf[p].notifications # <<>>

StepsInOrder(p) ==
  /\ wf[p].pc \in {"getLocalBookmarks", "markBookmarksRead"} => wf[p].newUpdated.def
  /\ CacheReadDone(p)
     => /\ wf[p].newUpdated.def
        /\ wf[p].pc \notin {"idle", "getOldUpdatedTime", "getNewUpdatedTime",
                             "fetchNew", "fetchNewPending", "getLocalBookmarks"}
  /\ wf[p].tabs # <<>> => CacheReadDone(p)
  /\ wf[p].responses # <<>>
     => /\ Len(wf[p].tabs) = Len(wf[p].responses)
        /\ \A k \in 1..Len(wf[p].tabs) : wf[p].tabs[k] = wf[p].readBookmarks[k].href

BatchInspected(p) ==
  \/ wf[p].pc = "resolved"
  \/ wf[p].pc = "rejected" /\ wf[p].failedAt = "markBookmarksRead"
        /\ ~SomeResponse(p, {"neterr"})
  \/ wf[p].listSets > 0

\* C14: the calls of a mark-read batch are all issued, one per selected
\* bookmark, before any of them is answered, and the batch neither settles on
\* a result code nor writes the stored list while a call is unanswered.
C14_BatchJoinsBeforeInspecting ==
  /\ [](\A p \in Clicks :
         wf[p].responses # <<>>
         => /\ Len(wf[p].responses) = Len(wf[p].readBookmarks)
            /\ BatchInspected(p) => AllResponded(p))
  /\ [][\A p \in Clicks :
         /\ wf[p].responses = <<>> /\ wf'[p].responses # <<>>
            => /\ Len(wf'[p].responses) = Len(wf'[p].readBookmarks)
               /\ \A k \in 1..Len(wf'[p].responses) : wf'[p].responses[k] = "pending"
         /\ wf[p].responses # <<>> /\ ~AllResponded(p)' /\ ~SomeResponse(p, {"neterr"})'
            => /\ wf'[p].pc = wf[p].pc
               /\ wf'[p].listSets = wf[p].listSets
               /\ \A k \in 1..Len(storageQ') :
                    ~(storageQ'[k].op = "setLocalBookmarks" /\ storageQ'[k].proc = p)]_vars

C14_Witness ==
  \E p \in Clicks :
    /\ wf[p].pc = "markBookmarksRead"
    /\ wf[p].responses = <<"pending", "failed">>
    /\ wf[p].listSets = 0
    /\ pinboard = Defined(wf[p].bookmarks)

\* R holds exactly the entries of L with toread = "yes", in the order of L.
ExactlyUnread(L, R) ==
  /\ Len(R) = Cardinality({ i \in 1..Len(L) : L[i].toread = "yes" })
  /\ \A j \in 1..Len(R) : R[j] = L[NthUnread(L, j)]

\* The lists filterUnread is applied to: the stored list (updateBadgeCount)
\* and the list a click read (handleClick).
FilteredLists ==
  {pinboard.val} \cup { wf[p].bookmarks : p \in Clicks }
    \cup { storageQ[k].val.val : k \in 1..Len(storageQ) }

\* C15: filterUnread returns exactly the entries with toread = "yes", in
\* their original order, and filtering its result again changes nothing.
C15_FilterUnreadExactAndIdempotent ==
  \A L \in FilteredLists :
    /\ ExactlyUnread(L, filterUnread(L))
    /\ filterUnread(filterUnread(L)) = filterUnread(L)

C15_Witness ==
  \E p \in Clicks :
    LET L == wf[p].bookmarks IN
    /\ Len(L) >= 4
    /\ L[1].toread = "no" /\ L[2].toread = "yes"
    /\ L[3].toread = "no" /\ L[4].toread = "yes"
    /\ Len(wf[p].readBookmarks) >= 2
    /\ wf[p].readBookmarks[1] = L[2]
    /\ wf[p].readBookmarks[2] = L[4]
    /\ pinboard.val # L

\* No click or timer workflow is in flight, and no storage callback is
\* waiting for delivery.
Quiescent ==
  /\ \A p \in Procs : wf[p].pc \in {"idle", "resolved", "rejected"}
  /\ \A p \in Procs : \A k \in 1..Len(wf[p].responses) : wf[p].responses[k] # "pending"
  /\ storageQ = <<>>

\* C16: in every quiescent state in which the stored last-update time equals
\* the service's update time, the stored bookmark list equals the service's
\* bookmark list.
C16_EqualTimeMeansEqualList ==
  (Quiescent /\ pinboardUpdated = Defined(remoteTime))
  => pinboard = Defined(remoteBookmarks)

\* No request to the service has failed.
RemoteCallsSucceeded ==
  \A p \in Clicks :
    /\ wf[p].failedAt \notin {"getNewUpdatedTime", "fetchNew"}
    /\ OnlyResponses(p, {"pending", "done"})

\* The number of tabs the clicks have opened on href h.
TabsOn(h) ==
  Cardinality({ <<p, k>> \in Clicks \X (1..TAB_COUNT) :
                  k <= Len(wf[p].tabs) /\ wf[p].tabs[k] = h })

\* C17: while every request to the service succeeds and nothing but the
\* extension's own mark-read calls changes the service, no bookmark has been
\* opened in more than one tab, whatever the interleaving of the clicks.
C17_OpenedAtMostOnce ==
  RemoteCallsSucceeded
  => \A i \in 1..Len(remoteBookmarks) : TabsOn(remoteBookmarks[i].href) <= 1

\* What a read of the stored list issued now would be handed shows
\* toread = "no" for the bookmark with href h.
StoredShowsRead(stored, h) ==
  /\ stored.def
  /\ \E i \in 1..Len(stored.val) : stored.val[i].href = h
  /\ \A i \in 1..Len(stored.val) :
       stored.val[i].href = h => stored.val[i].toread = "no"

\* C18: in the step in which markBookmarksRead resolves after a batch whose
\* calls all answered "done", a read of the stored list shows toread = "no"
\* for every selected bookmark.
C18_ResolvesAfterPersisting ==
  [][\A p \in Clicks :
       (/\ wf[p].pc = "markBookmarksRead"
        /\ wf'[p].pc = "resolved"
        /\ \A k \in 1..Len(wf'[p].responses) : wf'[p].responses[k] = "done")
       => \A k \in 1..Len(wf[p].readBookmarks) :
            StoredShowsRead(pinboard', wf[p].readBookmarks[k].href)]_vars

\* A step of timer workflow t: the workflow moves, or a storage callback of
\* a call it made is delivered.
TimerStep(t) ==
  \/ wf'[t] # wf[t]
  \/ /\ storageQ # <<>>
     /\ Head(storageQ).proc = t
     /\ storageQ' # storageQ
     /\ Len(storageQ') <= Len(storageQ)

\* C19: the workflow of a timer tick opens no tab, posts no notification and
\* issues no mark-read call; its steps change nothing but the stored time,
\* the stored list and the badge, and leave the service's data as it is.
C19_TimerOnlyRefreshes ==
  /\ [](\A t \in Timers :
         /\ wf[t].tabs = <<>>
         /\ wf[t].notifications = <<>>
         /\ wf[t].readBookmarks = <<>>
         /\ wf[t].responses = <<>>)
  /\ [][\A t \in Timers :
         TimerStep(t)
         => /\ UNCHANGED <<remoteBookmarks, remoteTime, changes>>
            /\ \A p \in Procs \ {t} : wf'[p] = wf[p]]_vars

C19_Witness ==
  \E t \in Timers : \E p \in Clicks :
    /\ wf[t].pc = "fetchNewPending"
    /\ wf[t].timeSets = 1
    /\ wf[t].listSets = 1
    /\ pinboard = Defined(remoteBookmarks)
    /\ \E i \in 1..Len(remoteBookmarks) : remoteBookmarks[i].toread = "yes"
    /\ badge = "1"
    /\ wf[p].pc = "idle"
    /\ storageQ = <<>>

====
